---- MODULE Spec2Model ----
(***************************************************************************)
(* Conway's Game of Life of go-life: the grid of cells built by makeCells, *)
(* the per-cell update checkState with its neighbour count liveNeighbors,  *)
(* and the main loop that passes checkState over every cell in row-major   *)
(* order and then draws.                                                   *)
(***************************************************************************)
EXTENDS Integers, FiniteSets, Sequences, TLC

\* Largest number of rows and of columns of a modelled grid, largest number
\* of cells, and number of passes of the main loop that are followed.
MaxRows == 3
MaxCols == 3
MaxCells == 9
MaxPass == 3
\* Side of the square grid on which the block and the blinker are placed.
IsolatedDim == 5
\* Largest number of cells of a grid built from every combination of draws.
MaxMakeCells == 4

VARIABLES
  cells,     \* cells[x][y]: the cell record (alive, nextState, x, y)
  pc,        \* "loop": at the loop head; "pass": inside the checkState pass;
             \* "draw": pass done, draw pending; "closed": window closed;
             \* "panic": an index out of range stopped the program
  pos,       \* number of cells of the current pass already handled
  pass,      \* number of completed passes
  init,      \* history: the alive grid makeCells returned
  pre,       \* history: the alive grid when the current pass began
  reads,     \* history: the <<x, y, alive>> read by the last liveNeighbors
  last,      \* history: the last checkState call: cell, alive used, count
  drawn,     \* history: the alive grid the last draw read
  preNext,   \* history: the nextState grid when the current pass began
  draws,     \* history: draws[x][y] is the value rand.Float64() returned for
             \* cell (x, y), in hundredths
  density    \* the threshold the draws are compared with, in hundredths

vars == <<cells, pc, pos, pass, init, pre, reads, last, drawn, preNext, draws, density>>

------------------------------------------------------------------------------
\* len(cells) and len(cells[x])
NumRows(cs) == Cardinality(DOMAIN cs)
NumCols(cs) == Cardinality(DOMAIN cs[0])

Coords(cs) == {<<x, y>> : x \in DOMAIN cs, y \in DOMAIN cs[0]}

\* The alive flags of a grid, and its nextState flags
AliveGrid(cs) == [x \in DOMAIN cs |-> [y \in DOMAIN cs[x] |-> cs[x][y].alive]]
NextGrid(cs) == [x \in DOMAIN cs |-> [y \in DOMAIN cs[x] |-> cs[x][y].nextState]]

\* newCell with the two coordinates stored in each other's field
newCellSwapped(x, y) == [alive |-> FALSE, nextState |-> FALSE, x |-> y, y |-> x]

\* newCell: a cell at (x, y), both flags false
newCell(x, y) == [alive |-> FALSE, nextState |-> FALSE, x |-> x, y |-> y]

\* The constant threshold (0.15), in hundredths
threshold == 15

\* makeCells without c.nextState = c.alive
makeCellsNoNext(R, C, dr, t) ==
  [x \in 0..(R - 1) |-> [y \in 0..(C - 1) |->
     [newCell(x, y) EXCEPT !.alive = dr[x][y] < t]]]

\* makeCells with the comparison <= in place of <
makeCellsLE(R, C, dr, t) ==
  [x \in 0..(R - 1) |-> [y \in 0..(C - 1) |->
     LET c == [newCell(x, y) EXCEPT !.alive = dr[x][y] <= t]
     IN  [c EXCEPT !.nextState = c.alive]]]

\* makeCells: c.alive = rand.Float64() < threshold; c.nextState = c.alive,
\* for the draws dr and the threshold t
makeCells(R, C, dr, t) ==
  [x \in 0..(R - 1) |-> [y \in 0..(C - 1) |->
     LET c == [newCell(x, y) EXCEPT !.alive = dr[x][y] < t]
     IN  [c EXCEPT !.nextState = c.alive]]]

\* Draws that give the alive flags g under the constant threshold
DrawsFor(g) == [x \in DOMAIN g |-> [y \in DOMAIN g[x] |->
                  IF g[x][y] THEN threshold - 1 ELSE threshold]]

\* Wrap with the "- 1" of the lower edge forgotten
WrapNoMinusOne(i, n) == IF i = n THEN 0 ELSE IF i = -1 THEN n ELSE i

\* The edge rule of the closure add, for one index against one length
Wrap(i, n) == IF i = n THEN 0 ELSE IF i = -1 THEN n - 1 ELSE i

\* The eight add(...) calls of liveNeighbors, in order
NeighborArgs(x, y) ==
  << <<x - 1, y>>, <<x + 1, y>>, <<x, y + 1>>, <<x, y - 1>>,
     <<x - 1, y + 1>>, <<x + 1, y + 1>>, <<x - 1, y - 1>>, <<x + 1, y - 1>> >>

\* The coordinate add(ax, ay) indexes cells with
AddCoord(cs, ax, ay) ==
  LET wx == Wrap(ax, NumRows(cs))
  IN  <<wx, Wrap(ay, NumCols(cs))>>

\* The eight coordinates liveNeighbors indexes, in order
NeighborCoords(cs, x, y) ==
  LET args == NeighborArgs(x, y)
  IN  [k \in 1..8 |-> AddCoord(cs, args[k][1], args[k][2])]

InRange(cs, c) == c[1] \in DOMAIN cs /\ c[2] \in DOMAIN cs[0]

\* liveNeighbors counting each alive cell once, however many add calls reach it
liveNeighborsDistinct(cs, x, y) ==
  LET nc == NeighborCoords(cs, x, y)
  IN  Cardinality({nc[k] : k \in {j \in 1..8 : cs[nc[j][1]][nc[j][2]].alive}})

\* liveNeighbors: liveCount++ once per add call that finds an alive cell
liveNeighbors(cs, x, y) ==
  LET nc == NeighborCoords(cs, x, y)
  IN  Cardinality({k \in 1..8 : cs[nc[k][1]][nc[k][2]].alive})

\* The if-chain with the birth test liveCount >= 3
RuleNextBirthGE3(a, ns, liveCount) ==
  IF a
  THEN LET n1 == IF liveCount < 2 THEN FALSE ELSE ns
           n2 == IF liveCount = 2 \/ liveCount = 3 THEN TRUE ELSE n1
       IN  IF liveCount > 3 THEN FALSE ELSE n2
  ELSE IF liveCount >= 3 THEN TRUE ELSE ns

\* The if-chain with the birth test liveCount <= 3
RuleNextBirthLE3(a, ns, liveCount) ==
  IF a
  THEN LET n1 == IF liveCount < 2 THEN FALSE ELSE ns
           n2 == IF liveCount = 2 \/ liveCount = 3 THEN TRUE ELSE n1
       IN  IF liveCount > 3 THEN FALSE ELSE n2
  ELSE IF liveCount <= 3 THEN TRUE ELSE ns

\* The if-chain with the overpopulation test liveCount >= 3
RuleNextOverGE3(a, ns, liveCount) ==
  IF a
  THEN LET n1 == IF liveCount < 2 THEN FALSE ELSE ns
           n2 == IF liveCount = 2 \/ liveCount = 3 THEN TRUE ELSE n1
       IN  IF liveCount >= 3 THEN FALSE ELSE n2
  ELSE IF liveCount = 3 THEN TRUE ELSE ns

\* The if-chain of checkState: the nextState it leaves, from the alive it
\* tests, the nextState it starts from and the count
RuleNext(a, ns, liveCount) ==
  IF a
  THEN LET n1 == IF liveCount < 2 THEN FALSE ELSE ns
           n2 == IF liveCount = 2 \/ liveCount = 3 THEN TRUE ELSE n1
       IN  IF liveCount > 3 THEN FALSE ELSE n2
  ELSE IF liveCount = 3 THEN TRUE ELSE ns

\* The commit done for every cell of the grid instead of for cell (x, y)
CommitAll(cs, x, y) ==
  [i \in DOMAIN cs |-> [j \in DOMAIN cs[i] |->
     [cs[i][j] EXCEPT !.alive = cs[i][j].nextState]]]

\* The first two statements in the other order
CommitSwapped(cs, x, y) ==
  LET c1 == [cs[x][y] EXCEPT !.nextState = cs[x][y].alive]
      c2 == [c1 EXCEPT !.alive = c1.nextState]
  IN  [cs EXCEPT ![x][y] = c2]

\* The first two statements of checkState on cell (x, y)
Commit(cs, x, y) ==
  LET c1 == [cs[x][y] EXCEPT !.alive = cs[x][y].nextState]
      c2 == [c1 EXCEPT !.nextState = c1.alive]
  IN  [cs EXCEPT ![x][y] = c2]

\* checkState on cell (x, y): the grid it leaves
checkState(cs, x, y) ==
  LET cm == Commit(cs, x, y)
      n  == liveNeighbors(cm, cm[x][y].x, cm[x][y].y)
  IN  [cm EXCEPT ![x][y].nextState = RuleNext(cm[x][y].alive, cm[x][y].nextState, n)]

------------------------------------------------------------------------------
NoCall == [x |-> -1, y |-> -1, a |-> FALSE, n |-> -1]

InitWith(cs, dr, t) ==
  /\ cells = cs
  /\ draws = dr
  /\ density = t
  /\ preNext = NextGrid(cs)
  /\ pc = "loop"
  /\ pos = 0
  /\ pass = 0
  /\ init = AliveGrid(cs)
  /\ pre = AliveGrid(cs)
  /\ reads = <<>>
  /\ last = NoCall
  /\ drawn = AliveGrid(cs)

\* cells := makeCells(), for every grid shape within the bounds and every
\* outcome of the draws
Init ==
  \E R \in 1..MaxRows, C \in 1..MaxCols :
    /\ R * C <= MaxCells
    /\ \E g \in [0..(R - 1) -> [0..(C - 1) -> BOOLEAN]] :
         InitWith(makeCells(R, C, DrawsFor(g), threshold), DrawsFor(g), threshold)

\* for !window.ShouldClose() { ... : the loop body is entered
LoopHead ==
  /\ pc = "loop"
  /\ pass < MaxPass
  /\ pc' = "pass"
  /\ pos' = 0
  /\ pre' = AliveGrid(cells)
  /\ preNext' = NextGrid(cells)
  /\ UNCHANGED <<cells, pass, init, reads, last, drawn, draws, density>>

\* window.ShouldClose() returns true: main returns
ShouldClose ==
  /\ pc = "loop"
  /\ pc' = "closed"
  /\ UNCHANGED <<cells, pos, pass, init, pre, reads, last, drawn, preNext, draws, density>>

\* One c.checkState(cells) of the pass, on the cell the range loops are at
CheckState ==
  /\ pc = "pass"
  /\ pos < NumRows(cells) * NumCols(cells)
  /\ LET x  == pos \div NumCols(cells)
         y  == pos % NumCols(cells)
         cm == Commit(cells, x, y)
         nc == NeighborCoords(cm, cm[x][y].x, cm[x][y].y)
     IN  IF \A k \in 1..8 : InRange(cm, nc[k])
         THEN /\ cells' = checkState(cells, x, y)
              /\ reads' = [k \in 1..8 |-> <<nc[k][1], nc[k][2], cm[nc[k][1]][nc[k][2]].alive>>]
              /\ last' = [x |-> x, y |-> y, a |-> cm[x][y].alive, n |-> liveNeighbors(cm, cm[x][y].x, cm[x][y].y)]
              /\ pos' = pos + 1
              /\ IF pos + 1 = NumRows(cells) * NumCols(cells)
                 THEN pc' = "draw" /\ pass' = pass + 1
                 ELSE pc' = pc /\ pass' = pass
         ELSE /\ cells' = cm
              /\ pc' = "panic"
              /\ UNCHANGED <<reads, last, pos, pass>>
  /\ UNCHANGED <<init, pre, drawn, preNext, draws, density>>

\* draw(cells, window, program), then the sleep to the next frame
Draw ==
  /\ pc = "draw"
  /\ drawn' = AliveGrid(cells)
  /\ pc' = "loop"
  /\ UNCHANGED <<cells, pos, pass, init, pre, reads, last, preNext, draws, density>>

Next == LoopHead \/ ShouldClose \/ CheckState \/ Draw

Spec == Init /\ [][Next]_vars
------------------------------------------------------------------------------
\* The block and the blinker on a square grid of side IsolatedDim, placed at
\* every position of the torus.

\* Three cells in a line through (cx, cy): along a row (same x) when horiz,
\* along a column (same y) otherwise
BlinkerGrid(D, cx, cy, horiz) ==
  [x \in 0..(D - 1) |-> [y \in 0..(D - 1) |->
     IF horiz
     THEN x = cx /\ y \in {(cy + D - 1) % D, cy, (cy + 1) % D}
     ELSE y = cy /\ x \in {(cx + D - 1) % D, cx, (cx + 1) % D}]]

\* The 2x2 square whose corner of least indices is (cx, cy)
BlockGrid(D, cx, cy) ==
  [x \in 0..(D - 1) |-> [y \in 0..(D - 1) |->
     x \in {cx, (cx + 1) % D} /\ y \in {cy, (cy + 1) % D}]]

InitBlinker ==
  \E cx \in 0..(IsolatedDim - 1), cy \in 0..(IsolatedDim - 1), horiz \in BOOLEAN :
    LET dr == DrawsFor(BlinkerGrid(IsolatedDim, cx, cy, horiz))
    IN  InitWith(makeCells(IsolatedDim, IsolatedDim, dr, threshold), dr, threshold)

InitBlock ==
  \E cx \in 0..(IsolatedDim - 1), cy \in 0..(IsolatedDim - 1) :
    LET dr == DrawsFor(BlockGrid(IsolatedDim, cx, cy))
    IN  InitWith(makeCells(IsolatedDim, IsolatedDim, dr, threshold), dr, threshold)

\* The values rand.Float64() returns, in hundredths of [0, 1): the least,
\* the two around the constant threshold, the greatest
DrawValues == {0, threshold - 1, threshold, 99}

\* The densities 0.0, the constant threshold and 1.0, in hundredths
Densities == {0, threshold, 100}

\* main before cells := makeCells(): the draws makeCells will get, for
\* every small grid shape, and the density it compares them with
InitMake ==
  \E R \in 1..MaxRows, C \in 1..MaxCols :
    /\ R * C <= MaxMakeCells
    /\ draws \in [0..(R - 1) -> [0..(C - 1) -> DrawValues]]
    /\ density \in Densities
    /\ pc = "start"
    /\ cells = <<>>
    /\ pos = 0
    /\ pass = 0
    /\ init = <<>>
    /\ pre = <<>>
    /\ reads = <<>>
    /\ last = NoCall
    /\ drawn = <<>>
    /\ preNext = <<>>

\* cells := makeCells()
MakeCells ==
  /\ pc = "start"
  /\ LET cs == makeCells(NumRows(draws), NumCols(draws), draws, density)
     IN  /\ cells' = cs
         /\ init' = AliveGrid(cs)
         /\ pre' = AliveGrid(cs)
         /\ drawn' = AliveGrid(cs)
         /\ preNext' = NextGrid(cs)
  /\ pc' = "loop"
  /\ UNCHANGED <<pos, pass, reads, last, draws, density>>

NextMake == MakeCells \/ LoopHead \/ ShouldClose \/ CheckState \/ Draw

SpecMake == InitMake /\ [][NextMake]_vars

SpecBlinker == InitBlinker /\ [][Next]_vars
SpecBlock == InitBlock /\ [][Next]_vars

------------------------------------------------------------------------------
\* The reference: synchronous Life (B3/S23) on the torus, on grids of flags.

Offsets == {d \in {-1, 0, 1} \X {-1, 0, 1} : d # <<0, 0>>}

B3S23(a, n) == (a /\ n \in {2, 3}) \/ (~a /\ n = 3)

GridRows(g) == Cardinality(DOMAIN g)
GridCols(g) == Cardinality(DOMAIN g[0])

\* Number of offsets whose cell, taken modulo the grid's size, is alive
RefCount(g, x, y) ==
  Cardinality({d \in Offsets :
     g[(x + d[1] + GridRows(g)) % GridRows(g)][(y + d[2] + GridCols(g)) % GridCols(g)]})

RefStep(g) == [x \in DOMAIN g |-> [y \in DOMAIN g[x] |-> B3S23(g[x][y], RefCount(g, x, y))]]

RECURSIVE RefGen(_, _)
RefGen(g, k) == IF k = 0 THEN g ELSE RefStep(RefGen(g, k - 1))

AllDead(cs) == \A c \in Coords(cs) : ~cs[c[1]][c[2]].alive /\ ~cs[c[1]][c[2]].nextState
GridDead(g) == \A x \in DOMAIN g : \A y \in DOMAIN g[x] : ~g[x][y]

\* A pass has just completed
PassDone == pc = "draw"
\* Some checkState call has completed
Called == last.n # -1

------------------------------------------------------------------------------
\* C1: after every pass, each cell's alive is the B3/S23 rule applied to its
\* alive and to its number of alive toroidal neighbours before the pass.
C1_PassIsSyncStep == PassDone => AliveGrid(cells) = RefStep(pre)

\* C2: every alive value a liveNeighbors call reads from another cell during
\* a pass is the value that cell's alive had when the pass began.
C2_ReadsSeePassStart ==
  (pc \in {"pass", "draw"} /\ pos > 0) =>
    \A k \in 1..8 :
      <<reads[k][1], reads[k][2]>> # <<last.x, last.y>> =>
        reads[k][3] = pre[reads[k][1]][reads[k][2]]

\* C3: checkState leaves nextState TRUE exactly when the cell is alive with 2
\* or 3 live neighbours or dead with exactly 3, where the alive value is the
\* one checkState tests and the count is in 0..8.
C3_RuleTable ==
  Called =>
    /\ last.n \in 0..8
    /\ cells[last.x][last.y].nextState =
         ((last.a /\ (last.n = 2 \/ last.n = 3)) \/ (~last.a /\ last.n = 3))

\* C3 witness: a dead cell with a count other than 3 has been handled
C3_Witness == Called /\ ~last.a /\ last.n > 3 /\ ~cells[last.x][last.y].nextState

\* C4: the eight coordinates liveNeighbors reads are inside the grid, no
\* access is out of range, and for cell (0,0) they include (R-1, C-1),
\* (R-1, 0) and (0, C-1).
C4_ToroidalAdjacency ==
  /\ pc # "panic"
  /\ Called =>
       LET got == {<<reads[k][1], reads[k][2]>> : k \in 1..8}
           R == NumRows(cells)
           C == NumCols(cells)
       IN  /\ got \subseteq Coords(cells)
           /\ (last.x = 0 /\ last.y = 0) =>
                {<<R - 1, C - 1>>, <<R - 1, 0>>, <<0, C - 1>>} \subseteq got

\* C4 witness: liveNeighbors has run for cell (0,0) of a 3x3 grid
C4_Witness ==
  Called /\ last.x = 0 /\ last.y = 0 /\ NumRows(cells) = 3 /\ NumCols(cells) = 3

\* C5: from a blinker, the alive grid after 1 pass is the perpendicular line
\* through the same centre, and after 2 passes the original line.
C5_Blinker ==
  \A cx \in DOMAIN init, cy \in DOMAIN init, horiz \in BOOLEAN :
    init = BlinkerGrid(GridRows(init), cx, cy, horiz) =>
      /\ (PassDone /\ pass = 1) =>
           AliveGrid(cells) = BlinkerGrid(GridRows(init), cx, cy, ~horiz)
      /\ (PassDone /\ pass = 2) => AliveGrid(cells) = init

\* C6: from a grid with exactly one live cell, its 8 neighbours dead, the
\* whole alive grid is dead after one pass.
C6_LoneCellDies ==
  \A c \in Coords(cells) :
    ( /\ \A d \in Coords(cells) : init[d[1]][d[2]] <=> (d = c)
      /\ RefCount(init, c[1], c[2]) = 0
      /\ PassDone /\ pass = 1 )
    => GridDead(AliveGrid(cells))

\* C7: the alive flags draw reads after the k-th pass are the k-th B3/S23
\* generation of the initial grid.
C7_DrawSeesGeneration ==
  (pc = "loop" /\ pass >= 1) => drawn = RefGen(init, pass)

\* C8: between passes every cell's nextState equals its alive or the B3/S23
\* value computed from the alive grid as it stands.
C8_NextStateBetweenPasses ==
  pc = "loop" =>
    \A c \in Coords(cells) :
      LET cl == cells[c[1]][c[2]]
      IN  \/ cl.nextState = cl.alive
          \/ cl.nextState = B3S23(cl.alive, RefCount(AliveGrid(cells), c[1], c[2]))

\* C9: from a block, after any number of passes every cell's alive and
\* nextState are those of the initial configuration.
C9_BlockStable ==
  (PassDone \/ (pc = "loop" /\ pass >= 1)) =>
    AliveGrid(cells) = init /\ NextGrid(cells) = init

\* C9 witness: two passes over a block have completed
C9_Witness ==
  /\ PassDone /\ pass = 2
  /\ \E cx \in DOMAIN init, cy \in DOMAIN init : init = BlockGrid(GridRows(init), cx, cy)

\* C10: once every cell's alive and nextState are FALSE, they remain FALSE
\* in every later state.
C10_DeadStaysDead == [][AllDead(cells) => AllDead(cells')]_vars

\* C10 witness: two passes over an all-dead 3x3 grid have completed
C10_Witness ==
  PassDone /\ pass = 2 /\ GridDead(init) /\ AllDead(cells) /\ NumRows(cells) = 3 /\ NumCols(cells) = 3

\* makeCells has just returned
Made == pc = "loop" /\ pass = 0

\* C11: makeCells makes a cell alive iff its draw is strictly less than the
\* density and leaves nextState = alive; so density 0.0 gives an all-dead
\* grid and density 1.0 an all-alive grid, whatever the draws.
C11_MakeCells ==
  Made =>
    /\ DOMAIN cells = DOMAIN draws
    /\ \A x \in DOMAIN cells :
         /\ DOMAIN cells[x] = DOMAIN draws[x]
         /\ \A y \in DOMAIN cells[x] :
              /\ cells[x][y].alive <=> (draws[x][y] < density)
              /\ cells[x][y].nextState = cells[x][y].alive
    /\ density = 0 => \A c \in Coords(cells) : ~cells[c[1]][c[2]].alive
    /\ density = 100 => \A c \in Coords(cells) : cells[c[1]][c[2]].alive

\* C11 witness: makeCells has returned a 2x2 grid for density 0.0 with a
\* draw of 0.0 among the draws
C11_Witness ==
  /\ Made /\ density = 0 /\ NumRows(cells) = 2 /\ NumCols(cells) = 2
  /\ draws[0][0] = 0 /\ draws[1][1] = 99
  /\ GridDead(AliveGrid(cells))

\* The cell the range loops of the pass are at
CurX == pos \div NumCols(cells)
CurY == pos % NumCols(cells)

\* C13: a checkState call on cell c, its liveNeighbors call included,
\* changes only c.alive and c.nextState: every other cell keeps both flags,
\* every cell keeps x and y, and after the commit no alive flag changes.
C13_Frame ==
  [][pc = "pass" =>
       /\ DOMAIN cells' = DOMAIN cells
       /\ \A d \in Coords(cells) :
            /\ d # <<CurX, CurY>> => cells'[d[1]][d[2]] = cells[d[1]][d[2]]
            /\ cells'[d[1]][d[2]].x = cells[d[1]][d[2]].x
            /\ cells'[d[1]][d[2]].y = cells[d[1]][d[2]].y
       /\ AliveGrid(cells') = [AliveGrid(cells) EXCEPT ![CurX][CurY] = cells[CurX][CurY].nextState]
  ]_vars

\* C13 witness: on a 3x3 grid a checkState call has changed its cell's
\* alive while another cell's alive and nextState differ
C13_Witness ==
  /\ Called /\ NumRows(cells) = 3 /\ NumCols(cells) = 3
  /\ pc = "pass"
  /\ cells[last.x][last.y].alive # pre[last.x][last.y]
  /\ cells[CurX][CurY].alive # cells[CurX][CurY].nextState

\* C14: liveNeighbors returns the number, in 0..8, of the 8 offsets whose
\* wrapped coordinate holds an alive cell, a cell counted once per offset
\* that reaches it: 8 for the alive cell of a 1x1 grid.
C14_CountWithMultiplicity ==
  Called =>
    /\ last.n \in 0..8
    /\ last.n = RefCount(AliveGrid(cells), last.x, last.y)
    /\ (NumRows(cells) = 1 /\ NumCols(cells) = 1 /\ cells[0][0].alive) => last.n = 8

\* C14 witness: the alive cell of a 1x1 grid has counted itself 8 times
C14_Witness ==
  Called /\ NumRows(cells) = 1 /\ NumCols(cells) = 1 /\ cells[0][0].alive /\ last.n = 8

\* C15: at every moment the grid has one cell per coordinate of the
\* rows x columns makeCells was run for, the cell at cells[x][y] has fields
\* x and y equal to its indices.
C15_GridShape ==
  /\ DOMAIN cells = 0..(NumRows(draws) - 1)
  /\ \A x \in DOMAIN cells :
       /\ DOMAIN cells[x] = 0..(NumCols(draws) - 1)
       /\ \A y \in DOMAIN cells[x] : cells[x][y].x = x /\ cells[x][y].y = y
  /\ Cardinality(Coords(cells)) = NumRows(draws) * NumCols(draws)

\* C15 witness: two passes over a 2x3 grid have completed
C15_Witness == PassDone /\ pass = 2 /\ NumRows(cells) = 2 /\ NumCols(cells) = 3

\* C16: during the first pass no alive flag changes, and after it every
\* cell's alive is the initial one and every cell's nextState is the B3/S23
\* successor of the initial alive grid.
C16_FirstPass ==
  /\ (pc = "pass" /\ pass = 0) => AliveGrid(cells) = init
  /\ (PassDone /\ pass = 1) =>
       AliveGrid(cells) = init /\ NextGrid(cells) = RefStep(init)

\* C16 witness: the first pass over a 3x3 grid that is no still life is done
C16_Witness ==
  PassDone /\ pass = 1 /\ NumRows(cells) = 3 /\ NumCols(cells) = 3 /\ RefStep(init) # init

\* C17: the alive grid after a pass is the nextState grid as it stood when
\* the pass began, and the statement c.nextState = c.alive leaves nextState
\* as it was before the call.
C17_OnePassLag ==
  /\ PassDone => AliveGrid(cells) = preNext
  /\ pc = "pass" =>
       Commit(cells, CurX, CurY)[CurX][CurY].nextState = cells[CurX][CurY].nextState

\* C17 witness: the second pass over a 3x3 grid is done and has changed
\* the alive grid
C17_Witness ==
  /\ PassDone /\ pass = 2 /\ NumRows(cells) = 3 /\ NumCols(cells) = 3
  /\ AliveGrid(cells) # pre

====
